---- MODULE Spec2Model ----
(***************************************************************************)
(* A model of rustysdx-audio (src/main.rs): the main thread, the cpal      *)
(* capture callback and the three worker threads receive_serial_audio,     *)
(* play_receive_audio and transmit_audio_via_serial, which share one       *)
(* Mutex<SharedState> and the serial port.                                 *)
(*                                                                         *)
(* Bytes read from the serial port are named by their position in the      *)
(* incoming stream (1, 2, 3, ...), so that order, loss and duplication are *)
(* visible.  A Vec of such bytes is written as the sequence of its runs of *)
(* consecutive positions, <<lo, hi>> standing for lo, lo+1, ..., hi, with   *)
(* no empty run and touching runs joined, so that two Vecs are equal       *)
(* exactly when their run sequences are.  Microphone samples are u8        *)
(* values in plain sequences.                                              *)
(***************************************************************************)
EXTENDS Integers, Sequences, FiniteSets, TLC

\* ------------------------------------------------------------ bounds
\* Serial reads that return data, in the whole-program specification.
MaxReads == 2
\* Serial reads that return data, in the buffer-filling specification SpecFill.
FillReads == 11
\* Invocations of the capture callback.
MaxCaptures == 1
\* Iterations of the TransmitGate loop.
MaxTxIters == 2
\* Longest capture slice handed to transmit_audio_via_serial in GateSpec.
MaxSamples == 2

\* ------------------------------------------------- program constants
\* let mut buffer = [0u8; 500]  and  buf.drain(..500)
ChunkSize == 500
\* if state_guard.buf.len() < 2
MinDecode == 2
\* while state_guard.buf.len() < 10
RefillLevel == 10
\* the silence level: unwrap_or(128), min_sample != 128 || max_sample != 128
Center == 128

\* The control sequences written to the serial port.
EnableSeq == "UA1;"
TxModeSeq == "UA1;TX0;"
RxModeSeq == ";RX;"
AudioTag == "audio"

\* ByteChannel's capacity C of the design ("e.g., 10 chunks"), in chunks and
\* in bytes; the program has no such constant.
CapacityChunks == 10
Capacity == CapacityChunks * ChunkSize

\* ------------------------------------------------------------ inputs
\* One callback's data, &[u8]: silence, and activity by a single sample
\* above or below the silence level.
CaptureData == {<<Center>>, <<Center, Center>>, <<Center, 200>>, <<0, Center>>}
\* Byte counts a serial read that returns data may return (1 ..= 500).
ReadSizes == {1, 9, ChunkSize}
\* A full read.
FullRead == {ChunkSize}

VARIABLES
    buf,              \* SharedState.buf
    underrun_counter, \* SharedState.underrun_counter
    tx_status,        \* SharedState.tx_status
    state_lock,       \* holder of the Mutex<SharedState>, or "free"
    state_poisoned,   \* the Mutex<SharedState> is poisoned
    input_data,       \* the captured samples, Arc<Mutex<Vec<u8>>>
    input_lock,       \* holder of the input_data mutex, or "free"
    input_poisoned,   \* the input_data mutex is poisoned
    serial_out,       \* every write issued on the serial port, in order
    nread,            \* bytes taken from the incoming serial stream so far
    reads,            \* serial read calls made so far
    main_pc,          \* position of the main thread
    cb_pc,            \* position of the capture callback
    cb_data,          \* the data of the callback in progress
    ncaptures,        \* callbacks invoked so far
    rx_pc,            \* position of receive_serial_audio
    rx_chunk,         \* buffer[..bytes_read] of the read in progress
    rx_log,           \* buffer[..bytes_read] of every read of n > 0 bytes,
                      \* in order
    play_pc,          \* position of play_receive_audio
    play_data,        \* the drained slice `data`
    submitted,        \* every chunk handed to Decoder::new, in order
    sink,             \* the Sink: for each source appended, in order, the
                      \* number in `submitted` of the chunk it decodes
    tx_pc,            \* position of transmit_audio_via_serial
    tx_buffer,        \* its local `buffer`
    tx_trace          \* activity of each buffer it has evaluated, in order

vars == <<buf, underrun_counter, tx_status, state_lock, state_poisoned,
          input_data, input_lock, input_poisoned, serial_out, nread, reads,
          main_pc, cb_pc, cb_data, ncaptures, rx_pc, rx_chunk, rx_log,
          play_pc, play_data, submitted, sink, tx_pc, tx_buffer, tx_trace>>

shared == <<buf, underrun_counter, tx_status>>
mutex == <<state_lock, state_poisoned>>
capture == <<input_data, input_lock, input_poisoned>>
mainv == <<main_pc>>
cbv == <<cb_pc, cb_data, ncaptures>>
rxv == <<rx_pc, rx_chunk, rx_log, nread, reads>>
playv == <<play_pc, play_data, submitted, sink>>
txv == <<tx_pc, tx_buffer, tx_trace>>

\* ----------------------------------------------------------- helpers
RECURSIVE SeqMin(_)
SeqMin(s) ==
    IF Len(s) = 1 THEN s[1]
    ELSE LET m == SeqMin(Tail(s)) IN IF s[1] < m THEN s[1] ELSE m

RECURSIVE SeqMax(_)
SeqMax(s) ==
    IF Len(s) = 1 THEN s[1]
    ELSE LET m == SeqMax(Tail(s)) IN IF s[1] > m THEN s[1] ELSE m

\* A slip: the minimum of an empty buffer taken as 0.
MinSampleOrZero(b) == IF b = <<>> THEN 0 ELSE SeqMin(b)

\* buffer.iter().cloned().min().unwrap_or(128)
MinSample(b) == IF b = <<>> THEN Center ELSE SeqMin(b)

\* buffer.iter().cloned().max().unwrap_or(128)
MaxSample(b) == IF b = <<>> THEN Center ELSE SeqMax(b)

\* A slip: activity only if both extremes are off center.
IsActiveBoth(b) == MinSample(b) # Center /\ MaxSample(b) # Center

\* min_sample != 128 || max_sample != 128
IsActive(b) == MinSample(b) # Center \/ MaxSample(b) # Center

\* A slip: the transmit-mode sequence sent with every active buffer.
SendsTxModeAlways(b, status) == IsActive(b)

\* A slip: the transmit-mode sequence sent when already transmitting.
SendsTxModeInverted(b, status) == IsActive(b) /\ status

\* if min_sample != 128 || max_sample != 128 { if !state.tx_status {
SendsTxMode(b, status) == IsActive(b) /\ ~status

\* A slip: the receive-mode branch taken on every silent buffer.
SendsRxModeAlways(b, status) == ~IsActive(b)

\* } else if state.tx_status {
SendsRxMode(b, status) == ~IsActive(b) /\ status

\* The next n bytes of the incoming stream after `from` bytes were read.
StreamBytes(from, n) == IF n = 0 THEN <<>> ELSE << <<from + 1, from + n>> >>

\* Vec::len of a Vec of stream bytes.
RECURSIVE ByteLen(_)
ByteLen(v) ==
    IF v = <<>> THEN 0 ELSE (v[1][2] - v[1][1] + 1) + ByteLen(Tail(v))

\* One serial write: a control sequence, or the audio buffer.
Control(token) == [seq |-> token, data |-> <<>>]
Audio(b) == [seq |-> AudioTag, data |-> b]

\* input_data.extend_from_slice(data), buffer.extend_from_slice(input_data)
Extend(v, data) == v \o data

\* A slip: the chunk put in front of the buffered bytes.
ExtendBytesFront(v, chunk) == chunk \o v

\* state.buf.extend_from_slice(&buffer[..bytes_read]): the chunk goes to the
\* end of the Vec (its first run is joined to the last one it continues).
ExtendBytes(v, chunk) ==
    IF v = <<>> THEN chunk
    ELSE IF chunk = <<>> THEN v
    ELSE LET last == v[Len(v)]
             first == chunk[1]
         IN IF last[2] + 1 = first[1]
            THEN SubSeq(v, 1, Len(v) - 1) \o << <<last[1], first[2]>> >>
                    \o Tail(chunk)
            ELSE v \o chunk

\* What buf.drain(..n) yields: the first n bytes (n <= len).
RECURSIVE Drained(_, _)
Drained(v, n) ==
    IF n = 0 THEN <<>>
    ELSE LET l == v[1][2] - v[1][1] + 1
         IN IF l <= n THEN <<v[1]>> \o Drained(Tail(v), n - l)
            ELSE << <<v[1][1], v[1][1] + n - 1>> >>

\* What buf.drain(..n) leaves in buf: everything after the first n bytes.
RECURSIVE AfterDrain(_, _)
AfterDrain(v, n) ==
    IF n = 0 THEN v
    ELSE LET l == v[1][2] - v[1][1] + 1
         IN IF l <= n THEN AfterDrain(Tail(v), n - l)
            ELSE << <<v[1][1] + n, v[1][2]>> >> \o Tail(v)

\* A slip: an underrun seen only when the buffer is empty.
UnderrunWhenEmpty(v) == ByteLen(v) = 0

\* if state_guard.buf.len() < 2
Underrun(v) == ByteLen(v) < MinDecode

\* A slip: the refill wait ended at the underrun level.
NeedsRefillShort(v) == ByteLen(v) < MinDecode

\* while state_guard.buf.len() < 10
NeedsRefill(v) == ByteLen(v) < RefillLevel

\* buf.drain(..500) panics when the range ends past the end of the Vec.
DrainPanics(v) == ByteLen(v) < ChunkSize

\* A panic of the main thread ends the process, and every thread with it.
MainDead == {"dead_write", "dead_poison"}
Running == main_pc \notin MainDead

\* ------------------------------------------------------------- Init
\* The state after main has built SharedState and input_data and started
\* the input stream (main.rs lines 94-137); no worker thread exists yet.
Init ==
    /\ buf = <<>>
    /\ underrun_counter = 0
    /\ tx_status = FALSE
    /\ state_lock = "free"
    /\ state_poisoned = FALSE
    /\ input_data = <<>>
    /\ input_lock = "free"
    /\ input_poisoned = FALSE
    /\ serial_out = <<>>
    /\ nread = 0
    /\ reads = 0
    /\ main_pc = "settle"
    /\ cb_pc = "idle"
    /\ cb_data = <<>>
    /\ ncaptures = 0
    /\ rx_pc = "unborn"
    /\ rx_chunk = <<>>
    /\ rx_log = <<>>
    /\ play_pc = "unborn"
    /\ play_data = <<>>
    /\ submitted = <<>>
    /\ sink = <<>>
    /\ tx_pc = "unborn"
    /\ tx_buffer = <<>>
    /\ tx_trace = <<>>

\* ------------------------------------------------- capture callback
\* cpal invokes the data callback with a buffer of samples.
CbInvoke ==
    /\ Running
    /\ cb_pc = "idle"
    /\ ncaptures < MaxCaptures
    /\ \E d \in CaptureData : cb_data' = d
    /\ cb_pc' = "lock"
    /\ ncaptures' = ncaptures + 1
    /\ UNCHANGED <<shared, mutex, capture, serial_out, mainv, rxv, playv, txv>>

\* input_data_clone.lock().unwrap(); input_data.extend_from_slice(data)
\* The lock is taken only when no one holds it; a poisoned mutex panics.
CbAppend ==
    /\ Running
    /\ cb_pc = "lock"
    /\ input_lock = "free"
    /\ IF input_poisoned
       THEN /\ cb_pc' = "dead_poison"
            /\ UNCHANGED input_data
       ELSE /\ input_data' = Extend(input_data, cb_data)
            /\ cb_pc' = "idle"
    /\ cb_data' = <<>>
    /\ UNCHANGED <<shared, mutex, input_lock, input_poisoned, serial_out,
                   mainv, ncaptures, rxv, playv, txv>>

\* ------------------------------------------------------------- main
\* A slip: the enable-streaming sequence written twice.
MainEnableTwice ==
    /\ main_pc = "settle"
    /\ serial_out' = serial_out \o <<Control(EnableSeq), Control(EnableSeq)>>
    /\ \E ok \in BOOLEAN : main_pc' = IF ok THEN "spawn" ELSE "dead_write"
    /\ UNCHANGED <<shared, mutex, capture, cbv, rxv, playv, txv>>

\* thread::sleep(3 s); serport.write(b"UA1;").unwrap()
MainEnable ==
    /\ main_pc = "settle"
    /\ serial_out' = Append(serial_out, Control(EnableSeq))
    /\ \E ok \in BOOLEAN : main_pc' = IF ok THEN "spawn" ELSE "dead_write"
    /\ UNCHANGED <<shared, mutex, capture, cbv, rxv, playv, txv>>

\* The three thread::spawn calls.
MainSpawn ==
    /\ main_pc = "spawn"
    /\ main_pc' = "diag"
    /\ rx_pc' = "read"
    /\ play_pc' = "lock"
    /\ tx_pc' = "start"
    /\ UNCHANGED <<shared, mutex, capture, serial_out, cbv, rx_chunk, rx_log,
                   nread, reads, play_data, submitted, sink, tx_buffer,
                   tx_trace>>

\* thread::sleep(10 s); let state = state.lock().unwrap()
MainDiagLock ==
    /\ main_pc = "diag"
    /\ state_lock = "free"
    /\ IF state_poisoned
       THEN /\ main_pc' = "dead_poison"
            /\ UNCHANGED state_lock
       ELSE /\ main_pc' = "print"
            /\ state_lock' = "main"
    /\ UNCHANGED <<shared, state_poisoned, capture, serial_out, cbv, rxv,
                   playv, txv>>

\* A slip: the statistics loop clearing tx_status as it reports.
MainDiagPrintResets ==
    /\ main_pc = "print"
    /\ main_pc' = "diag"
    /\ state_lock' = "free"
    /\ tx_status' = FALSE
    /\ UNCHANGED <<buf, underrun_counter, state_poisoned, capture, serial_out,
                   cbv, rxv, playv, txv>>

\* println!(.. state.buf.len()); the guard is dropped at the end of the body.
MainDiagPrint ==
    /\ main_pc = "print"
    /\ main_pc' = "diag"
    /\ state_lock' = "free"
    /\ UNCHANGED <<shared, state_poisoned, capture, serial_out, cbv, rxv,
                   playv, txv>>

\* ------------------------------------------------------ ReceivePump
\* serport.read(&mut buffer): Ok(n), WouldBlock or another error.
\* `limit` bounds the reads that return data, `sizes` is what they return.
RxRead(limit, sizes) ==
    /\ Running
    /\ rx_pc = "read"
    /\ \E r \in {"ok", "would_block", "error"} :
        CASE r = "ok" ->
                \E n \in sizes \cup {0} :
                    /\ n > 0 => reads < limit
                    /\ rx_chunk' = StreamBytes(nread, n)
                    /\ rx_log' = IF n > 0
                                 THEN Append(rx_log, StreamBytes(nread, n))
                                 ELSE rx_log
                    /\ nread' = nread + n
                    /\ reads' = IF n > 0 THEN reads + 1 ELSE reads
                    /\ rx_pc' = "append"
          [] r = "would_block" ->
                /\ rx_pc' = "sleep"
                /\ UNCHANGED <<rx_chunk, rx_log, nread, reads>>
          [] r = "error" ->
                /\ rx_pc' = "done"
                /\ UNCHANGED <<rx_chunk, rx_log, nread, reads>>
    /\ UNCHANGED <<shared, mutex, capture, serial_out, mainv, cbv, playv, txv>>

\* A slip: WouldBlock ends the pump like any other error.
RxWakeDone ==
    /\ Running
    /\ rx_pc = "sleep"
    /\ rx_pc' = "done"
    /\ UNCHANGED <<shared, mutex, capture, serial_out, mainv, cbv, rx_chunk,
                   rx_log, nread, reads, playv, txv>>

\* thread::sleep(10 ms) after WouldBlock, then the next read.
RxWake ==
    /\ Running
    /\ rx_pc = "sleep"
    /\ rx_pc' = "read"
    /\ UNCHANGED <<shared, mutex, capture, serial_out, mainv, cbv, rx_chunk,
                   rx_log, nread, reads, playv, txv>>

\* state.lock().unwrap(); state.buf.extend_from_slice(&buffer[..bytes_read])
RxAppend ==
    /\ Running
    /\ rx_pc = "append"
    /\ state_lock = "free"
    /\ IF state_poisoned
       THEN /\ rx_pc' = "dead_poison"
            /\ UNCHANGED <<buf, rx_chunk>>
       ELSE /\ buf' = ExtendBytes(buf, rx_chunk)
            /\ rx_chunk' = <<>>
            /\ rx_pc' = "read"
    /\ UNCHANGED <<underrun_counter, tx_status, mutex, capture, serial_out,
                   mainv, cbv, rx_log, nread, reads, playv, txv>>

\* ----------------------------------------------------- PlaybackPump
\* A panic of play_receive_audio while it holds the guard poisons the mutex.
\* let mut state_guard = state.lock().unwrap()
PlayLock ==
    /\ Running
    /\ play_pc = "lock"
    /\ state_lock = "free"
    /\ IF state_poisoned
       THEN /\ play_pc' = "dead_poison"
            /\ UNCHANGED state_lock
       ELSE /\ play_pc' = "check"
            /\ state_lock' = "play"
    /\ UNCHANGED <<shared, state_poisoned, capture, serial_out, mainv, cbv,
                   rxv, play_data, submitted, sink, txv>>

\* if buf.len() < 2 { underrun_counter += 1; while buf.len() < 10 { drop ..
\* With fewer than 2 bytes the while loop is entered and the guard dropped.
PlayCheck ==
    /\ Running
    /\ play_pc = "check"
    /\ IF Underrun(buf)
       THEN /\ underrun_counter' = underrun_counter + 1
            /\ IF NeedsRefill(buf)
               THEN /\ state_lock' = "free"
                    /\ play_pc' = "refill_sleep"
               ELSE /\ play_pc' = "drain"
                    /\ UNCHANGED state_lock
       ELSE /\ play_pc' = "drain"
            /\ UNCHANGED <<underrun_counter, state_lock>>
    /\ UNCHANGED <<buf, tx_status, state_poisoned, capture, serial_out, mainv,
                   cbv, rxv, play_data, submitted, sink, txv>>

\* thread::sleep(10 ms); state_guard = state.lock().unwrap()
PlayRefillLock ==
    /\ Running
    /\ play_pc = "refill_sleep"
    /\ state_lock = "free"
    /\ IF state_poisoned
       THEN /\ play_pc' = "dead_poison"
            /\ UNCHANGED state_lock
       ELSE /\ play_pc' = "refill_check"
            /\ state_lock' = "play"
    /\ UNCHANGED <<shared, state_poisoned, capture, serial_out, mainv, cbv,
                   rxv, play_data, submitted, sink, txv>>

\* while state_guard.buf.len() < 10 { drop(state_guard); ..
PlayRefillCheck ==
    /\ Running
    /\ play_pc = "refill_check"
    /\ IF NeedsRefill(buf)
       THEN /\ state_lock' = "free"
            /\ play_pc' = "refill_sleep"
       ELSE /\ play_pc' = "drain"
            /\ UNCHANGED state_lock
    /\ UNCHANGED <<shared, state_poisoned, capture, serial_out, mainv, cbv,
                   rxv, play_data, submitted, sink, txv>>

\* state_guard.buf.drain(..500).collect::<Vec<u8>>().get(0..500)
\* Vec::drain panics when the range ends past the length; nothing is removed.
PlayDrain ==
    /\ Running
    /\ play_pc = "drain"
    /\ IF DrainPanics(buf)
       THEN /\ play_pc' = "dead_drain"
            /\ state_lock' = "free"
            /\ state_poisoned' = TRUE
            /\ UNCHANGED <<buf, play_data>>
       ELSE /\ play_data' = Drained(buf, ChunkSize)
            /\ buf' = AfterDrain(buf, ChunkSize)
            /\ play_pc' = "decode"
            /\ UNCHANGED <<state_lock, state_poisoned>>
    /\ UNCHANGED <<underrun_counter, tx_status, capture, serial_out, mainv,
                   cbv, rxv, submitted, sink, txv>>

\* Decoder::new(cursor).unwrap().convert_samples(); sink.append(source)
\* The decoder accepts the chunk or rejects it; unwrap panics on a rejection.
\* The guard is dropped at the end of the loop body, or by the panic.
PlayDecode ==
    /\ Running
    /\ play_pc = "decode"
    /\ submitted' = Append(submitted, play_data)
    /\ play_data' = <<>>
    /\ state_lock' = "free"
    /\ \E ok \in BOOLEAN :
        IF ok
        THEN /\ sink' = Append(sink, Len(submitted) + 1)
             /\ play_pc' = "lock"
             /\ UNCHANGED state_poisoned
        ELSE /\ play_pc' = "dead_decode"
             /\ state_poisoned' = TRUE
             /\ UNCHANGED sink
    /\ UNCHANGED <<shared, capture, serial_out, mainv, cbv, rxv, txv>>

\* ----------------------------------------------------- TransmitGate
\* let input_data = input_data_clone.lock().unwrap(): the guard lives as
\* long as transmit_audio_via_serial runs, which borrows the Vec behind it.
TxStart ==
    /\ Running
    /\ tx_pc = "start"
    /\ input_lock = "free"
    /\ IF input_poisoned
       THEN /\ tx_pc' = "dead_poison"
            /\ UNCHANGED input_lock
       ELSE /\ tx_pc' = "eval"
            /\ input_lock' = "tx"
    /\ UNCHANGED <<shared, mutex, input_data, input_poisoned, serial_out,
                   mainv, cbv, rxv, playv, tx_buffer, tx_trace>>

\* buffer.extend_from_slice(input_data); min_sample, max_sample
TxEval ==
    /\ Running
    /\ tx_pc = "eval"
    /\ Len(tx_trace) < MaxTxIters
    /\ tx_buffer' = Extend(tx_buffer, input_data)
    /\ tx_trace' = Append(tx_trace, IsActive(Extend(tx_buffer, input_data)))
    /\ tx_pc' = "lock"
    /\ UNCHANGED <<shared, mutex, capture, serial_out, mainv, cbv, rxv, playv>>

\* let mut state = state.lock().unwrap()
\* A panic of this thread drops the input_data guard too, poisoning it.
TxLock ==
    /\ Running
    /\ tx_pc = "lock"
    /\ state_lock = "free"
    /\ IF state_poisoned
       THEN /\ tx_pc' = "dead_poison"
            /\ input_lock' = "free"
            /\ input_poisoned' = TRUE
            /\ UNCHANGED state_lock
       ELSE /\ tx_pc' = "gate"
            /\ state_lock' = "tx"
            /\ UNCHANGED <<input_lock, input_poisoned>>
    /\ UNCHANGED <<shared, state_poisoned, input_data, serial_out, mainv, cbv,
                   rxv, playv, tx_buffer, tx_trace>>

\* if min != 128 || max != 128 { if !tx_status { tx_status = true;
\*     serport.write(b"UA1;TX0;").unwrap() } .. } else if tx_status { sleep ..
\* A failed write panics with both guards held.
TxGate ==
    /\ Running
    /\ tx_pc = "gate"
    /\ IF IsActive(tx_buffer)
       THEN IF SendsTxMode(tx_buffer, tx_status)
            THEN /\ tx_status' = TRUE
                 /\ serial_out' = Append(serial_out, Control(TxModeSeq))
                 /\ \E ok \in BOOLEAN :
                     IF ok
                     THEN /\ tx_pc' = "audio"
                          /\ UNCHANGED <<mutex, input_lock, input_poisoned>>
                     ELSE /\ tx_pc' = "dead_write"
                          /\ state_lock' = "free"
                          /\ state_poisoned' = TRUE
                          /\ input_lock' = "free"
                          /\ input_poisoned' = TRUE
            ELSE /\ tx_pc' = "audio"
                 /\ UNCHANGED <<tx_status, serial_out, mutex, input_lock,
                                input_poisoned>>
       ELSE /\ tx_pc' = IF SendsRxMode(tx_buffer, tx_status)
                        THEN "settle" ELSE "unlock"
            /\ UNCHANGED <<tx_status, serial_out, mutex, input_lock,
                           input_poisoned>>
    /\ UNCHANGED <<buf, underrun_counter, input_data, mainv, cbv, rxv, playv,
                   tx_buffer, tx_trace>>

\* The steps TransmitGate takes with the guard held, after the gate:
\*   "audio"     serport.write(&buffer).unwrap()           (after activity)
\*   "settle"    thread::sleep(100 ms)                     (after silence)
\*   "rx_write"  serport.write(b";RX;").unwrap()
\*   "rx_sent"   state.tx_status = false
\* A failed write panics with both guards held.
TxWrite ==
    /\ Running
    /\ tx_pc \in {"audio", "settle", "rx_write", "rx_sent"}
    /\ CASE tx_pc = "settle" ->
                /\ tx_pc' = "rx_write"
                /\ UNCHANGED <<tx_status, serial_out, mutex, input_lock,
                               input_poisoned>>
         [] tx_pc = "rx_sent" ->
                /\ tx_status' = FALSE
                /\ tx_pc' = "unlock"
                /\ UNCHANGED <<serial_out, mutex, input_lock, input_poisoned>>
         [] OTHER ->
                /\ serial_out' = Append(serial_out,
                                    IF tx_pc = "audio" THEN Audio(tx_buffer)
                                    ELSE Control(RxModeSeq))
                /\ UNCHANGED tx_status
                /\ \E ok \in BOOLEAN :
                    IF ok
                    THEN /\ tx_pc' = IF tx_pc = "audio" THEN "unlock"
                                     ELSE "rx_sent"
                         /\ UNCHANGED <<mutex, input_lock, input_poisoned>>
                    ELSE /\ tx_pc' = "dead_write"
                         /\ state_lock' = "free"
                         /\ state_poisoned' = TRUE
                         /\ input_lock' = "free"
                         /\ input_poisoned' = TRUE
    /\ UNCHANGED <<buf, underrun_counter, input_data, mainv, cbv, rxv, playv,
                   tx_buffer, tx_trace>>

\* buffer.clear(); the guard `state` is dropped at the end of the loop body.
TxUnlock ==
    /\ Running
    /\ tx_pc = "unlock"
    /\ tx_buffer' = <<>>
    /\ state_lock' = "free"
    /\ tx_pc' = "eval"
    /\ UNCHANGED <<shared, state_poisoned, capture, serial_out, mainv, cbv,
                   rxv, playv, tx_trace>>

\* -------------------------------------------------- specifications
Callback == CbInvoke \/ CbAppend
Main == MainEnable \/ MainSpawn \/ MainDiagLock \/ MainDiagPrint
Play == PlayLock \/ PlayCheck \/ PlayRefillLock \/ PlayRefillCheck
            \/ PlayDrain \/ PlayDecode
Tx == TxStart \/ TxEval \/ TxLock \/ TxGate \/ TxWrite \/ TxUnlock

Rx == RxRead(MaxReads, ReadSizes) \/ RxWake \/ RxAppend

Next == Callback \/ Main \/ Rx \/ Play \/ Tx

\* The whole program.
Spec == Init /\ [][Next]_vars

\* The whole program with its scheduling: the threads are OS threads, each
\* runs when it can, and a thread that waits for a mutex gets it when the
\* mutex is free again and again (every holder gives it up and then sleeps,
\* reads the serial port or computes before it asks again).
FairSpec ==
    /\ Spec
    /\ SF_vars(Callback)
    /\ SF_vars(Main)
    /\ SF_vars(Rx)
    /\ SF_vars(Play)
    /\ SF_vars(Tx)

\* The receive path alone, fed with full reads: the runs of the program in
\* which the capture callback and the transmit thread have not yet run.
RxFill == RxRead(FillReads, FullRead) \/ RxWake \/ RxAppend

NextFill == Main \/ RxFill \/ Play

SpecFill == Init /\ [][NextFill]_vars

\* transmit_audio_via_serial on its own: the function entered with any
\* captured samples behind `input_data` and any tx_status in the state it
\* is given, beside the statistics loop of main, which shares the state
\* lock with it.  Where tx_status is true the serial link has been told
\* transmit mode.  (In the program the function is entered once, with
\* tx_status = false.)
Samples == {0, 127, Center, 129, 200, 255}

GateInputs == UNION {[1..n -> Samples] : n \in 0..MaxSamples}

InitGate ==
    /\ buf = <<>>
    /\ underrun_counter = 0
    /\ tx_status \in BOOLEAN
    /\ state_lock = "free"
    /\ state_poisoned = FALSE
    /\ input_data \in GateInputs
    /\ input_lock = "tx"
    /\ input_poisoned = FALSE
    /\ serial_out = IF tx_status
                    THEN <<Control(EnableSeq), Control(TxModeSeq)>>
                    ELSE <<Control(EnableSeq)>>
    /\ nread = 0
    /\ reads = 0
    /\ main_pc = "diag"
    /\ cb_pc = "idle"
    /\ cb_data = <<>>
    /\ ncaptures = 0
    /\ rx_pc = "read"
    /\ rx_chunk = <<>>
    /\ rx_log = <<>>
    /\ play_pc = "lock"
    /\ play_data = <<>>
    /\ submitted = <<>>
    /\ sink = <<>>
    /\ tx_pc = "eval"
    /\ tx_buffer = <<>>
    /\ tx_trace = <<>>

TxLoop == TxEval \/ TxLock \/ TxGate \/ TxWrite \/ TxUnlock

NextGate == TxLoop \/ MainDiagLock \/ MainDiagPrint

GateSpec == InitGate /\ [][NextGate]_vars

\* ------------------------------------------ definitions for the properties
\* The writes TransmitGate issued: all but main's enable-streaming write.
RECURSIVE CountSeq(_, _)
CountSeq(log, token) ==
    IF log = <<>> THEN 0
    ELSE (IF log[1].seq = token THEN 1 ELSE 0) + CountSeq(Tail(log), token)

TxWrites == SelectSeq(serial_out, LAMBDA w : w.seq # EnableSeq)

\* Transitions of the activity along a trace that starts from `prev`:
\* those into `to`.
RECURSIVE Transitions(_, _, _)
Transitions(prev, trace, to) ==
    IF trace = <<>> THEN 0
    ELSE (IF trace[1] # prev /\ trace[1] = to THEN 1 ELSE 0)
            + Transitions(trace[1], Tail(trace), to)

\* TransmitGate is between two iterations, or has ended in a failed write.
TxBetweenIterations == tx_pc \in {"eval", "unlock", "dead_write"}

AllCenter(b) == \A i \in 1..Len(b) : b[i] = Center

\* The chunks handed to decode, end to end.
RECURSIVE Flatten(_)
Flatten(chunks) ==
    IF chunks = <<>> THEN <<>>
    ELSE ExtendBytes(Flatten(SubSeq(chunks, 1, Len(chunks) - 1)),
                     chunks[Len(chunks)])

\* A pump holds the state lock inside a blocking call: TransmitGate in its
\* settle delay or a serial write, PlaybackPump in the decoder.
BlockingHolder ==
    \/ state_lock = "tx" /\ tx_pc \in {"audio", "settle", "rx_write"}
    \/ state_lock = "play" /\ play_pc = "decode"

\* A pump whose next step is to take the state lock.
RxWaits == rx_pc = "append"
PlayWaits == play_pc \in {"lock", "refill_sleep"}
TxWaits == tx_pc = "lock"

PlayTerminated ==
    \/ play_pc \in {"dead_poison", "dead_drain", "dead_decode", "done"}
    \/ ~Running

\* --------------------------------------------------------------- C1
\* C1: whenever TransmitGate is between iterations, the transmit-mode
\* sequences it has written number the silence->activity transitions of the
\* buffers it has evaluated (starting from silence, transmitting = false),
\* and the receive-mode sequences number the activity->silence transitions:
\* none is written for a buffer whose activity repeats the previous one's.
C1_ModeSequencePerTransition ==
    TxBetweenIterations =>
        /\ CountSeq(serial_out, TxModeSeq) = Transitions(FALSE, tx_trace, TRUE)
        /\ CountSeq(serial_out, RxModeSeq) = Transitions(FALSE, tx_trace, FALSE)

\* Two active buffers were evaluated and one transmit-mode sequence written.
C1_Witness ==
    /\ tx_pc = "eval"
    /\ Len(tx_trace) >= 2
    /\ tx_trace[1] /\ tx_trace[2]
    /\ CountSeq(serial_out, TxModeSeq) = 1

\* --------------------------------------------------------------- C2
\* C2: the chunks handed to decode, then the slice being decoded, then buf,
\* then the chunk ReceivePump has read and not yet appended, are together
\* exactly the bytes read from the serial port, in the order read: nothing
\* handed to decode is duplicated, skipped or out of order.
C2_FifoOrder ==
    ExtendBytes(ExtendBytes(ExtendBytes(Flatten(submitted), play_data), buf),
                rx_chunk)
        = StreamBytes(0, nread)

\* A chunk that spans two reads was handed to decode, and bytes remain.
C2_Witness ==
    /\ Len(submitted) >= 1
    /\ reads >= 2
    /\ ByteLen(buf) > 0
    /\ ByteLen(buf) < ChunkSize

\* --------------------------------------------------------------- C3
\* C3: buf never holds more than the capacity C.
C3_BoundedBuffer == ByteLen(buf) <= Capacity

\* --------------------------------------------------------------- C4
\* C4: once ReceivePump has terminated on a read error, PlaybackPump
\* eventually terminates.
C4_PlaybackStopsAfterReceive == (rx_pc = "done") ~> PlayTerminated

\* --------------------------------------------------------------- C5
\* C5: after a failed serial write in TransmitGate or a rejected chunk in
\* PlaybackPump (and no other panic), no thread ends on the poisoned state
\* lock.
C5_FaultIsolation ==
    ((tx_pc = "dead_write" \/ play_pc = "dead_decode") /\ play_pc # "dead_drain")
        => /\ main_pc # "dead_poison"
           /\ rx_pc # "dead_poison"
           /\ play_pc # "dead_poison"
           /\ tx_pc # "dead_poison"

\* --------------------------------------------------------------- C6
\* C6: a chunk the decoder rejects does not end PlaybackPump.
C6_DecodeFailureSurvived == play_pc # "dead_decode"

\* --------------------------------------------------------------- C7
\* C7: a capture callback that waits for the input_data lock gets it in the
\* end (while the process runs).
C7_CallbackGetsLock == (cb_pc = "lock") ~> (cb_pc # "lock" \/ ~Running)

\* --------------------------------------------------------------- C8
\* C8: no pump waits for the state lock while another pump holds it inside
\* a blocking call.
C8_BlockingIsLocal ==
    BlockingHolder =>
        /\ ~RxWaits
        /\ ~(PlayWaits /\ state_lock # "play")
        /\ ~(TxWaits /\ state_lock # "tx")

\* --------------------------------------------------------------- C9
\* C9: when PlaybackPump finds fewer than 2 bytes, that step adds exactly one
\* to underrun_counter, hands nothing to decode and enters the refill wait;
\* no other step changes the counter, a new count needs a decode in between,
\* and nothing shorter than 2 bytes is ever handed to decode.
C9_UnderrunCountedOnce ==
    /\ [](underrun_counter <= Len(submitted) + 1)
    /\ [](\A i \in 1..Len(submitted) : ByteLen(submitted[i]) >= MinDecode)
    /\ [][ /\ (play_pc = "check" /\ play_pc' # "check"
                    /\ ByteLen(buf) < MinDecode)
                => /\ underrun_counter' = underrun_counter + 1
                   /\ submitted' = submitted
                   /\ play_pc' = "refill_sleep"
           /\ underrun_counter' # underrun_counter
                => /\ play_pc = "check"
                   /\ ByteLen(buf) < MinDecode
                   /\ underrun_counter' = underrun_counter + 1
         ]_vars

\* PlaybackPump met one byte, counted one underrun and waits for the refill.
C9_Witness ==
    /\ ByteLen(buf) = 1
    /\ underrun_counter = 1
    /\ play_pc = "refill_sleep"
    /\ submitted = <<>>

\* -------------------------------------------------------------- C10
\* C10: when every captured sample is 128, TransmitGate has issued no
\* serial write and tx_status is false.
C10_SilenceWritesNothing ==
    AllCenter(input_data) => (TxWrites = <<>> /\ tx_status = FALSE)

\* TransmitGate has evaluated a silent, non-empty capture twice.
C10_Witness ==
    /\ input_data # <<>>
    /\ AllCenter(input_data)
    /\ Len(tx_trace) >= 2
    /\ tx_pc = "eval"
    /\ TxWrites = <<>>

\* -------------------------------------------------------------- C11
\* The mode sequence most recently written in a log of serial writes.
RECURSIVE LastModeSeq(_)
LastModeSeq(log) ==
    IF log = <<>> THEN "none"
    ELSE IF log[Len(log)].seq \in {TxModeSeq, RxModeSeq}
         THEN log[Len(log)].seq
         ELSE LastModeSeq(SubSeq(log, 1, Len(log) - 1))

\* C11: the gate step on an active buffer with transmitting = false writes
\* exactly the transmit-mode sequence, and with transmitting = true writes
\* nothing; the step after it writes exactly the captured buffer.  So on
\* the serial link every transmit-mode sequence is directly followed by the
\* buffer (or is the last write, the buffer write being next or the mode
\* write having failed), and before every audio buffer the latest mode
\* sequence is the transmit-mode one.
C11_TxModeThenBuffer ==
    /\ [](\A i \in 1..Len(serial_out) :
            /\ serial_out[i].seq = AudioTag
                => /\ LastModeSeq(SubSeq(serial_out, 1, i - 1)) = TxModeSeq
                   /\ serial_out[i].data = input_data
            /\ serial_out[i].seq = TxModeSeq
                => IF i < Len(serial_out)
                   THEN serial_out[i + 1].seq = AudioTag
                   ELSE tx_pc \in {"audio", "dead_write"})
    /\ [][ /\ (tx_pc = "gate" /\ tx_pc' # "gate" /\ IsActive(tx_buffer))
                => /\ serial_out' = IF tx_status
                                    THEN serial_out
                                    ELSE Append(serial_out, Control(TxModeSeq))
                   /\ tx_status'
                   /\ tx_pc' \in {"audio", "dead_write"}
           /\ (tx_pc = "audio" /\ tx_pc' # "audio")
                => /\ serial_out' = Append(serial_out, Audio(input_data))
                   /\ tx_status' = tx_status
         ]_vars

\* A silence->activity transition and then a second active buffer: one
\* transmit-mode sequence, the buffer, and the buffer again.
C11_Witness ==
    /\ tx_pc = "unlock"
    /\ Len(TxWrites) = 3
    /\ TxWrites[1] = Control(TxModeSeq)
    /\ TxWrites[2] = Audio(input_data)
    /\ TxWrites[3] = Audio(input_data)

\* -------------------------------------------------------------- C12
\* C12: the read that returns WouldBlock takes ReceivePump from the read to
\* its sleep and changes neither buf nor the chunk in hand nor the bytes
\* taken from the stream; while it sleeps it holds no chunk; the only step
\* out of the sleep goes back to the read, again with buf unchanged: it
\* neither ends nor appends.
C12_WouldBlockRetries ==
    /\ [](rx_pc = "sleep" => rx_chunk = <<>>)
    /\ [][ /\ (rx_pc' = "sleep" /\ rx_pc # "sleep")
                => /\ rx_pc = "read"
                   /\ UNCHANGED <<buf, rx_chunk, nread, reads>>
           /\ (rx_pc = "sleep" /\ rx_pc' # "sleep")
                => /\ rx_pc' = "read"
                   /\ UNCHANGED <<buf, rx_chunk, nread, reads>>
         ]_vars

\* A read returned WouldBlock after data had been appended to buf.
C12_Witness ==
    /\ rx_pc = "sleep"
    /\ reads >= 1
    /\ ByteLen(buf) > 0

\* -------------------------------------------------------------- C13
\* C13: whenever PlaybackPump is about to take its 500-byte slice, buf
\* holds at least 500 bytes, so the removal stays within the buffered
\* length and never fails.
C13_DrainWithinBuffer ==
    /\ play_pc = "drain" => ByteLen(buf) >= ChunkSize
    /\ play_pc # "dead_drain"

\* -------------------------------------------------------------- C14
\* C14: the units handed to decode are the chunks the reads returned, one
\* unit per read and in the order read: the i-th unit is exactly the bytes
\* of the i-th read of n > 0 bytes, with its boundaries and its length.
C14_ReadIsDecodeUnit ==
    \A i \in 1..Len(submitted) :
        /\ i <= Len(rx_log)
        /\ submitted[i] = rx_log[i]

\* -------------------------------------------------------------- C15
\* C15: the gate step on a silent buffer with transmitting = true writes
\* nothing and starts the settle delay; the delay ends in the write of the
\* receive-mode sequence, and nothing else is written in between; only
\* after that write has returned is transmitting set to false, and that
\* is the only step that clears it.  transmitting stays true and the state
\* lock stays held from the delay to that step, and no silent buffer is
\* ever written.
C15_SettleThenRxThenFlag ==
    /\ [](tx_pc \in {"settle", "rx_write", "rx_sent"}
            => /\ tx_status
               /\ ~IsActive(tx_buffer)
               /\ state_lock = "tx")
    /\ [](tx_pc = "rx_sent"
            => serial_out[Len(serial_out)] = Control(RxModeSeq))
    /\ [](\A i \in 1..Len(serial_out) :
            serial_out[i].seq = AudioTag => IsActive(serial_out[i].data))
    /\ [][ /\ (tx_pc = "gate" /\ tx_pc' # "gate"
                    /\ ~IsActive(tx_buffer) /\ tx_status)
                => /\ tx_pc' = "settle"
                   /\ UNCHANGED <<serial_out, tx_status>>
           /\ (tx_pc = "settle" /\ tx_pc' # "settle")
                => /\ tx_pc' = "rx_write"
                   /\ UNCHANGED <<serial_out, tx_status>>
           /\ (tx_pc = "rx_write" /\ tx_pc' # "rx_write")
                => /\ tx_pc' \in {"rx_sent", "dead_write"}
                   /\ serial_out' = Append(serial_out, Control(RxModeSeq))
                   /\ UNCHANGED tx_status
           /\ (tx_pc = "rx_sent" /\ tx_pc' # "rx_sent")
                => /\ tx_pc' = "unlock"
                   /\ tx_status' = FALSE
                   /\ UNCHANGED serial_out
           /\ (tx_status /\ ~tx_status') => tx_pc = "rx_sent"
           /\ (tx_pc' = "rx_write" /\ tx_pc # "rx_write") => tx_pc = "settle"
         ]_vars

\* Entered with transmitting = true and a silent capture, TransmitGate has
\* waited, written the receive-mode sequence and cleared the flag.
C15_Witness ==
    /\ tx_pc = "unlock"
    /\ ~tx_status
    /\ ~IsActive(tx_buffer)
    /\ tx_buffer # <<>>
    /\ TxWrites = <<Control(TxModeSeq), Control(RxModeSeq)>>

\* -------------------------------------------------------------- C16
\* Some sample of the buffer differs from the center value.
OffCenter(b) == \E i \in 1..Len(b) : b[i] # Center

\* C16: TransmitGate treats a buffer as activity exactly when some sample
\* differs from 128, the empty buffer being silence: the classification
\* it records, the branch it takes and whether it writes the buffer all
\* agree with that, and with not (min = 128 and max = 128).
C16_ActivityIffOffCenter ==
    /\ IsActive(tx_buffer) <=> OffCenter(tx_buffer)
    /\ OffCenter(tx_buffer)
        <=> ~(MinSample(tx_buffer) = Center /\ MaxSample(tx_buffer) = Center)
    /\ tx_pc \in {"lock", "gate"}
        => (tx_trace[Len(tx_trace)] <=> OffCenter(tx_buffer))
    /\ tx_pc = "audio" => OffCenter(tx_buffer)
    /\ tx_pc \in {"settle", "rx_write", "rx_sent"} => ~OffCenter(tx_buffer)
    /\ tx_pc = "unlock"
        => (OffCenter(tx_buffer)
                <=> serial_out[Len(serial_out)] = Audio(tx_buffer))
    /\ tx_pc \in {"lock", "gate", "unlock"} /\ tx_buffer = <<>>
        => ~tx_trace[Len(tx_trace)]

\* A buffer whose single off-center sample is its last one was classified
\* as activity and is about to be written.
C16_Witness ==
    /\ tx_pc = "audio"
    /\ Len(tx_buffer) = 2
    /\ tx_buffer[1] = Center
    /\ tx_buffer[2] = 129
    /\ tx_trace[Len(tx_trace)]

\* -------------------------------------------------------------- C17
\* C17: every step that changes tx_status is a step of TransmitGate, taken
\* with the state lock in its hands at the gate or after the receive-mode
\* write; in that step main, the capture callback, ReceivePump and
\* PlaybackPump stay where they are.
C17_OnlyGateChangesFlag ==
    [][ tx_status' # tx_status
            => /\ tx_pc \in {"gate", "rx_sent"}
               /\ tx_pc' # tx_pc
               /\ state_lock = "tx"
               /\ UNCHANGED <<main_pc, cb_pc, rx_pc, play_pc>>
      ]_vars

\* transmitting is true after the callback, ReceivePump and PlaybackPump
\* have each handled data, and main holds the state lock for its statistics.
C17_Witness ==
    /\ tx_status
    /\ main_pc = "print"
    /\ tx_pc = "lock"
    /\ Len(tx_trace) = 2
    /\ Len(submitted) >= 1
    /\ rx_pc = "append"

\* -------------------------------------------------------------- C18
\* C18: until main has waited out its device-settle delay nothing is written
\* and no pump exists; the pumps are started only after the write of the
\* enable-streaming sequence has returned; from that write on the sequence
\* is on the serial link exactly once, as the first write, and every later
\* write is a mode sequence or an audio buffer.
C18_EnableOnceAndFirst ==
    /\ main_pc = "settle" => serial_out = <<>>
    /\ main_pc # "settle"
        => /\ CountSeq(serial_out, EnableSeq) = 1
           /\ serial_out[1] = Control(EnableSeq)
    /\ main_pc \in {"settle", "spawn", "dead_write"}
        => /\ rx_pc = "unborn"
           /\ play_pc = "unborn"
           /\ tx_pc = "unborn"
           /\ Len(serial_out) <= 1
    /\ \A i \in 2..Len(serial_out) :
            serial_out[i].seq \in {TxModeSeq, RxModeSeq, AudioTag}

\* The serial link carries the enable-streaming sequence, then a
\* transmit-mode sequence and two audio buffers, with all pumps started.
C18_Witness ==
    /\ main_pc = "diag"
    /\ Len(serial_out) = 4
    /\ serial_out[1] = Control(EnableSeq)
    /\ serial_out[2] = Control(TxModeSeq)
    /\ serial_out[4].seq = AudioTag
    /\ rx_pc = "sleep"
    /\ play_pc = "refill_sleep"

\* -------------------------------------------------------------- C19
\* The mode sequences written to serial, in order.
ModeSeqs == SelectSeq(serial_out, LAMBDA w : w.seq \in {TxModeSeq, RxModeSeq})

\* C19: whenever TransmitGate is alive and not inside the part of an
\* iteration that holds the state lock, tx_status is true exactly when the
\* mode sequence most recently written is the transmit-mode one; and the
\* mode sequences on the link alternate, the first being transmit-mode.
C19_FlagAgreesWithLink ==
    /\ tx_pc \in {"unborn", "start", "eval", "lock"}
        => (tx_status <=> LastModeSeq(serial_out) = TxModeSeq)
    /\ \A i \in 1..Len(ModeSeqs) :
            ModeSeqs[i].seq = IF i % 2 = 1 THEN TxModeSeq ELSE RxModeSeq

\* Between two iterations with transmitting = true: the transmit-mode
\* sequence is the latest mode sequence, an audio buffer came after it.
C19_Witness ==
    /\ tx_pc = "eval"
    /\ state_lock # "tx"
    /\ tx_status
    /\ Len(tx_trace) >= 1
    /\ LastModeSeq(serial_out) = TxModeSeq
    /\ serial_out[Len(serial_out)].seq = AudioTag

\* -------------------------------------------------------------- C20
\* PlaybackPump is in the refill wait that follows an underrun.
PlayRefilling == play_pc \in {"refill_sleep", "refill_check"}

\* C20: in its refill wait PlaybackPump holds the state lock for the length
\* check only, not while it sleeps; no step taken during the wait changes
\* underrun_counter or hands anything to decode; a check that finds fewer
\* than 10 bytes releases the lock and sleeps again; and the wait is left
\* for the drain only by a check that finds at least 10 bytes.
C20_RefillWait ==
    /\ [](play_pc = "refill_sleep" => state_lock # "play")
    /\ [](play_pc = "refill_check" => state_lock = "play")
    /\ [][ /\ PlayRefilling
                => UNCHANGED <<underrun_counter, submitted, play_data, sink>>
           /\ (play_pc = "refill_check" /\ play_pc' # "refill_check")
                => IF ByteLen(buf) < RefillLevel
                   THEN play_pc' = "refill_sleep" /\ state_lock' = "free"
                   ELSE play_pc' = "drain" /\ state_lock' = "play"
           /\ (play_pc = "refill_sleep" /\ play_pc' # "refill_sleep")
                => play_pc' \in {"refill_check", "dead_poison"}
           /\ (play_pc' = "drain" /\ play_pc # "drain")
                => \/ play_pc = "check" /\ ByteLen(buf) >= MinDecode
                   \/ play_pc = "refill_check" /\ ByteLen(buf) >= RefillLevel
         ]_vars

\* After an underrun on an empty buf ReceivePump has appended two reads
\* while PlaybackPump slept; with 2 bytes it still waits, one underrun
\* counted and nothing decoded.
C20_Witness ==
    /\ play_pc = "refill_sleep"
    /\ underrun_counter = 1
    /\ ByteLen(buf) = 2
    /\ reads = 2
    /\ rx_pc = "read"
    /\ submitted = <<>>
====
